---- MODULE Spec2Model ----
(***************************************************************************)
(* A model of the weather ETL toolkit: the transform pipeline of            *)
(* src/src/transform.py, the PostgreSQL loader of src/src/load.py and the   *)
(* `run` / `status` commands of src/src/main.py.                            *)
(*                                                                          *)
(* A DataFrame is a record [cols, rows]: the set of its column names and    *)
(* the sequence of its rows, each row a function from cols to cells.        *)
(* Cells of the numeric columns are tagged records [k, v]:                  *)
(*   raw (as extracted):  k = "num"  a whole number v                       *)
(*                        k = "half" the decimal v + 0.5                    *)
(*                        k = "text" text that is no number                 *)
(*                        k = "na"   an empty cell / JSON null              *)
(*   typed (after cast):  k = "num"  a float64, v in units of 1/Scale       *)
(*                        k = "int"  an integer v                           *)
(*                        k = "nan"  NaN / <NA> / None                      *)
(* city, time and day_of_week cells are strings; a parsed time is a         *)
(* record [y, m, d].                                                        *)
(***************************************************************************)
EXTENDS Integers, Sequences, FiniteSets, Bags, TLC

VARIABLES
    hist,       \* transform(): hist[1] is the DataFrame passed in, hist[n + 1]
                \* the local df after stage n
    strategy,   \* transform(): missing_strategy
    tpc,        \* transform(): the next stage to run, "done" or "raised"
    terr,       \* transform(): the exception raised, "" if none
    pc,         \* run(): position in the pipeline
    files,      \* the content of RAW_DATA_DIR, as extract_all() reads it
    df,         \* run(): the local df
    records,    \* load(): the tuples handed to execute_values
    page,       \* load(): number of pages already executed
    store,      \* weather_data as committed: key -> record, or Absent
    table,      \* whether the relation weather_data exists
    tx,         \* weather_data as seen inside load()'s open transaction
    conns,      \* number of open connections
    pre,        \* history: store when the current load() was entered
    loaded,     \* history: the (city, date) keys of every committed load()
    rerun,      \* history: "synced" when the last committed load() was of the
                \* present files, "yes" in a run that loads them again
    err,        \* the exception that ended the run, "" if none
    total       \* run(): the value returned by get_row_count()

tvars == <<hist, strategy, tpc, terr>>
pvars == <<pc, files, df, records, page, store, table, tx, conns, pre, loaded, rerun, err, total>>
vars == <<hist, strategy, tpc, terr,
          pc, files, df, records, page, store, table, tx, conns, pre, loaded, rerun, err,
          total>>

----------------------------------------------------------------------------
(* Bounds of the model *)

\* rows of a DataFrame handed to transform() in SpecTransform
MaxLen == 2
\* rows that one extract_all() returns in Spec
MaxRows == 3

(* Program constants *)

\* validate_temperature: the bounds of a realistic temperature
TEMP_MIN == -60
TEMP_MAX == 60
\* load: page_size of execute_values; 500 in the source, scaled down to 2 so
\* that a batch of MaxRows records spans more than one page
PAGE_SIZE == 2

----------------------------------------------------------------------------
(* Numbers *)

RECURSIVE Fact(_)
Fact(n) == IF n <= 1 THEN 1 ELSE n * Fact(n - 1)

\* float64 values are kept exactly, as multiples of 1/Scale: Scale is chosen
\* so that halves and the mean of up to MaxRows (MaxLen) values are exact
Scale == 2 * Fact(IF MaxLen > MaxRows THEN MaxLen ELSE MaxRows)

Num(n) == [k |-> "num", v |-> n]
Half(n) == [k |-> "half", v |-> n]
Text == [k |-> "text", v |-> 0]
NA == [k |-> "na", v |-> 0]

Float(n) == [k |-> "num", v |-> n * Scale]
Int64(n) == [k |-> "int", v |-> n]
NaN == [k |-> "nan", v |-> 0]

isna(c) == c.k = "nan"

\* pd.to_numeric(col, errors="coerce"): a float64, NaN for what does not parse
to_numeric(c) ==
    CASE c.k = "num" -> Float(c.v)
      [] c.k = "half" -> [k |-> "num", v |-> c.v * Scale + Scale \div 2]
      [] c.k = "int" -> Float(c.v)
      [] OTHER -> NaN

\* float comparisons: every comparison with NaN is False
lt(c, n) == c.k = "num" /\ c.v < n * Scale
gt(c, n) == c.k = "num" /\ c.v > n * Scale

\* float subtraction: NaN if either operand is NaN
fsub(a, b) == IF a.k = "num" /\ b.k = "num" THEN [k |-> "num", v |-> a.v - b.v] ELSE NaN

----------------------------------------------------------------------------
(* Dates *)

DigitOf == [c \in {"0", "1", "2", "3", "4", "5", "6", "7", "8", "9"} |->
              CASE c = "0" -> 0 [] c = "1" -> 1 [] c = "2" -> 2 [] c = "3" -> 3
                [] c = "4" -> 4 [] c = "5" -> 5 [] c = "6" -> 6 [] c = "7" -> 7
                [] c = "8" -> 8 [] c = "9" -> 9]

Ch(s, i) == IF i >= 1 /\ i <= Len(s) THEN SubSeq(s, i, i) ELSE ""

IsDigit(c) == c \in DOMAIN DigitOf

RECURSIVE Digits(_, _, _)
\* the number written by the digits s[i..j]
Digits(s, i, j) == IF j < i THEN 0 ELSE 10 * Digits(s, i, j - 1) + DigitOf[Ch(s, j)]

IsLeap(y) == (y % 4 = 0 /\ y % 100 # 0) \/ y % 400 = 0

DaysInMonth(y, m) ==
    IF m = 2 THEN (IF IsLeap(y) THEN 29 ELSE 28)
    ELSE IF m \in {4, 6, 9, 11} THEN 30 ELSE 31

NaT == [y |-> 0, m |-> 0, d |-> 0]

\* pd.to_datetime(s, format="%Y-%m-%d") of one string: four digits of year,
\* "-", one or two digits of month, "-", one or two digits of day, and
\* nothing else; NaT stands for the ValueError of a string that does not match
to_datetime(s) ==
    LET n == Len(s)
        mlen == IF IsDigit(Ch(s, 7)) THEN 2 ELSE 1
        dlen == n - (6 + mlen)
        shape == /\ \A i \in 1..4 : IsDigit(Ch(s, i))
                 /\ Ch(s, 5) = "-"
                 /\ IsDigit(Ch(s, 6))
                 /\ Ch(s, 6 + mlen) = "-"
                 /\ dlen \in {1, 2}
                 /\ \A i \in (7 + mlen)..n : IsDigit(Ch(s, i))
        y == Digits(s, 1, 4)
        m == Digits(s, 6, 5 + mlen)
        d == Digits(s, 7 + mlen, n)
    IN  IF shape /\ m \in 1..12 /\ d >= 1 /\ d <= DaysInMonth(y, m)
        THEN [y |-> y, m |-> m, d |-> d]
        ELSE NaT

RECURSIVE DaysBeforeYear(_)
\* days from 1970-01-01 to January 1st of year y (y >= 1970)
DaysBeforeYear(y) ==
    IF y <= 1970 THEN 0
    ELSE DaysBeforeYear(y - 1) + (IF IsLeap(y - 1) THEN 366 ELSE 365)

RECURSIVE DaysBeforeMonth(_, _)
DaysBeforeMonth(y, m) ==
    IF m <= 1 THEN 0 ELSE DaysBeforeMonth(y, m - 1) + DaysInMonth(y, m - 1)

\* the Timestamp's value: days since the epoch
Ordinal(t) == DaysBeforeYear(t.y) + DaysBeforeMonth(t.y, t.m) + (t.d - 1)

DAY_NAMES == <<"Monday", "Tuesday", "Wednesday", "Thursday", "Friday", "Saturday", "Sunday">>

\* Timestamp.day_name(): 1970-01-01 was a Thursday
day_name(t) == DAY_NAMES[((Ordinal(t) + 3) % 7) + 1]

----------------------------------------------------------------------------
(* DataFrames *)

PRECIP_COLS == {"precipitation_sum", "rain_sum", "snowfall_sum"}
TEMP_COLS == {"temperature_2m_max", "temperature_2m_min"}
\* cast_types: numeric_cols
FLOAT_COLS == PRECIP_COLS \cup TEMP_COLS \cup {"wind_speed_10m_max"}
MEASURE_COLS == FLOAT_COLS \cup {"weather_code"}
COMPUTED_COLS == {"temp_range", "month", "day_of_week"}
\* the columns select_dtypes(include="number") selects
NUMBER_COLS == MEASURE_COLS \cup {"temp_range", "month"}
\* load: columns
LOAD_COLS == {"city", "time"} \cup MEASURE_COLS \cup COMPUTED_COLS

Frame(cols, rows) == [cols |-> cols, rows |-> rows]

\* df.drop(columns=[c], errors="ignore")
drop_columns(f, dropped) ==
    Frame(f.cols \ dropped,
          [i \in 1..Len(f.rows) |-> [c \in f.cols \ dropped |-> f.rows[i][c]]])

\* df[c] = values: the column c is added or replaced
with_column(row, c, val) == [x \in DOMAIN row \cup {c} |-> IF x = c THEN val ELSE row[x]]

----------------------------------------------------------------------------
(* src/src/transform.py *)

\* a stage's outcome: the DataFrame it returns, or the exception it raises
Ok(f) == [exc |-> "", df |-> f]
Raise(e) == [exc |-> e, df |-> Frame({}, <<>>)]

\* only the upper bound of temperature_2m_max is checked
out_of_range_max_only(row) == gt(row["temperature_2m_max"], TEMP_MAX)

\* temperature_2m_max is not checked
out_of_range_min_only(row) ==
    lt(row["temperature_2m_min"], TEMP_MIN) \/ gt(row["temperature_2m_min"], TEMP_MAX)

out_of_range(row) ==
    \/ lt(row["temperature_2m_max"], TEMP_MIN) \/ gt(row["temperature_2m_max"], TEMP_MAX)
    \/ lt(row["temperature_2m_min"], TEMP_MIN) \/ gt(row["temperature_2m_min"], TEMP_MAX)

validate_temperature(f) ==
    IF ~(TEMP_COLS \subseteq f.cols) THEN Raise("KeyError")
    ELSE LET keep(row) == ~out_of_range(row)
         IN  Ok(Frame(f.cols, SelectSeq(f.rows, keep)))

negative_precip(f, row) == \E c \in PRECIP_COLS \cap f.cols : lt(row[c], 0)

validate_precipitation(f) ==
    LET keep(row) == ~negative_precip(f, row)
    IN  Ok(Frame(f.cols, SelectSeq(f.rows, keep)))

\* pd.to_numeric(...).astype("Int64"): a float that is no whole number cannot
\* be cast safely
to_Int64(c) == IF c.k = "num" THEN Int64(c.v \div Scale) ELSE NaN
whole(c) == c.k # "num" \/ c.v % Scale = 0

cast_row(f, row) ==
    [c \in f.cols |->
        IF c = "time" THEN to_datetime(row[c])
        ELSE IF c \in FLOAT_COLS THEN to_numeric(row[c])
        ELSE IF c = "weather_code" THEN to_Int64(to_numeric(row[c]))
        ELSE row[c]]

cast_types(f) ==
    IF \E i \in 1..Len(f.rows) : to_datetime(f.rows[i]["time"]) = NaT
    THEN Raise("ValueError")
    ELSE IF "weather_code" \in f.cols
            /\ \E i \in 1..Len(f.rows) : ~whole(to_numeric(f.rows[i]["weather_code"]))
    THEN Raise("TypeError")
    ELSE Ok(Frame(f.cols, [i \in 1..Len(f.rows) |-> cast_row(f, f.rows[i])]))

\* the cells isna() looks at: city, time and day_of_week are never missing
\* in a DataFrame of the upstream interface
missing_cells(f) ==
    {<<i, c>> \in (1..Len(f.rows)) \X (f.cols \cap NUMBER_COLS) : isna(f.rows[i][c])}

row_has_missing(f, row) == \E c \in f.cols \cap NUMBER_COLS : isna(row[c])

RECURSIVE SumOf(_, _, _)
\* the sum of column c over the rows 1..n that have a value, in units of 1/Scale
SumOf(f, c, n) ==
    IF n = 0 THEN 0
    ELSE SumOf(f, c, n - 1)
         + (IF isna(f.rows[n][c]) THEN 0
            ELSE IF f.rows[n][c].k = "int" THEN f.rows[n][c].v * Scale
            ELSE f.rows[n][c].v)

CountOf(f, c) == Cardinality({i \in 1..Len(f.rows) : ~isna(f.rows[i][c])})

\* df[c].mean(): NaN for a column with no value
mean(f, c) ==
    IF CountOf(f, c) = 0 THEN NaN
    ELSE [k |-> "num", v |-> SumOf(f, c, Len(f.rows)) \div CountOf(f, c)]

\* column c of the frame with its missing cells replaced by val (fillna(NaN)
\* replaces nothing); an Int64 column takes a whole float as an integer
fill_cell(f, c, cell, val) ==
    IF ~isna(cell) \/ isna(val) THEN cell
    ELSE IF c = "weather_code" THEN to_Int64(val)
    ELSE val

\* df[numeric_cols].fillna(vals): vals gives the fill value of each column
fillna(f, vals) ==
    Frame(f.cols,
          [i \in 1..Len(f.rows) |->
              [c \in f.cols |->
                  IF c \in NUMBER_COLS THEN fill_cell(f, c, f.rows[i][c], vals[c])
                  ELSE f.rows[i][c]]])

STRATEGIES == {"drop", "fill_zero", "fill_mean"}

handle_missing_values(f, strat) ==
    IF missing_cells(f) = {} THEN Ok(f)
    ELSE IF strat = "drop" THEN
        LET keep(row) == ~row_has_missing(f, row)
        IN  Ok(Frame(f.cols, SelectSeq(f.rows, keep)))
    ELSE IF strat = "fill_zero" THEN
        Ok(fillna(f, [c \in f.cols \cap NUMBER_COLS |-> Float(0)]))
    ELSE IF strat = "fill_mean" THEN
        IF "weather_code" \in f.cols
               /\ \E i \in 1..Len(f.rows) : isna(f.rows[i]["weather_code"])
               /\ ~whole(mean(f, "weather_code"))
        THEN Raise("TypeError")
        ELSE Ok(fillna(f, [c \in f.cols \cap NUMBER_COLS |-> mean(f, c)]))
    ELSE Raise("ValueError")

RECURSIVE drop_duplicates_first(_, _)
\* keep="first": a row is kept unless its key was seen in an earlier row
drop_duplicates_first(rows, seen) ==
    IF rows = <<>> THEN <<>>
    ELSE LET key == <<Head(rows)["city"], Head(rows)["time"]>>
         IN  IF key \in seen THEN drop_duplicates_first(Tail(rows), seen)
             ELSE <<Head(rows)>> \o drop_duplicates_first(Tail(rows), seen \cup {key})

RECURSIVE drop_duplicates_last(_, _)
\* keep="last": a row is kept unless its key is seen in a later row
drop_duplicates_last(rows, seen) ==
    IF rows = <<>> THEN <<>>
    ELSE LET n == Len(rows)
             key == <<rows[n]["city"], rows[n]["time"]>>
             front == SubSeq(rows, 1, n - 1)
         IN  IF key \in seen THEN drop_duplicates_last(front, seen)
             ELSE drop_duplicates_last(front, seen \cup {key}) \o <<rows[n]>>

remove_duplicates_keep_last(f) == Ok(Frame(f.cols, drop_duplicates_last(f.rows, {})))

remove_duplicates(f) == Ok(Frame(f.cols, drop_duplicates_first(f.rows, {})))

\* the supplied columns are kept as they came in
add_computed_columns_keep(f) ==
    IF ~(TEMP_COLS \subseteq f.cols) THEN Raise("KeyError")
    ELSE Ok(Frame(f.cols \cup COMPUTED_COLS,
          [i \in 1..Len(f.rows) |->
              LET row == f.rows[i]
                  has(c) == c \in f.cols
              IN  with_column(
                    with_column(
                      with_column(row, "temp_range",
                        IF has("temp_range") THEN row["temp_range"]
                        ELSE fsub(row["temperature_2m_max"], row["temperature_2m_min"])),
                      "month", IF has("month") THEN row["month"] ELSE Int64(row["time"].m)),
                    "day_of_week",
                    IF has("day_of_week") THEN row["day_of_week"] ELSE day_name(row["time"]))]))

add_computed_columns(f) ==
    IF ~(TEMP_COLS \subseteq f.cols) THEN Raise("KeyError")
    ELSE Ok(Frame(f.cols \cup COMPUTED_COLS,
          [i \in 1..Len(f.rows) |->
              LET row == f.rows[i]
              IN  with_column(
                    with_column(
                      with_column(row, "temp_range",
                        fsub(row["temperature_2m_max"], row["temperature_2m_min"])),
                      "month", Int64(row["time"].m)),
                    "day_of_week", day_name(row["time"]))]))

\* the stages of transform(), in the order it calls them
STAGES == <<"drop_source_file", "remove_duplicates", "cast_types", "handle_missing_values",
            "validate_temperature", "validate_precipitation", "add_computed_columns",
            "reset_index">>

\* what stage number n of transform() returns for df f
stage(n, f, strat) ==
    CASE STAGES[n] = "drop_source_file" -> Ok(drop_columns(f, {"source_file"}))
      [] STAGES[n] = "remove_duplicates" -> remove_duplicates(f)
      [] STAGES[n] = "cast_types" -> cast_types(f)
      [] STAGES[n] = "handle_missing_values" -> handle_missing_values(f, strat)
      [] STAGES[n] = "validate_temperature" -> validate_temperature(f)
      [] STAGES[n] = "validate_precipitation" -> validate_precipitation(f)
      [] STAGES[n] = "add_computed_columns" -> add_computed_columns(f)
      [] STAGES[n] = "reset_index" -> Ok(f)

RECURSIVE run_stages(_, _, _)
\* the stages n..8 applied to f: the first exception ends the pipeline
run_stages(n, f, strat) ==
    IF n > Len(STAGES) THEN Ok(f)
    ELSE LET r == stage(n, f, strat)
         IN  IF r.exc # "" THEN r ELSE run_stages(n + 1, r.df, strat)

transform(f, strat) == run_stages(1, f, strat)

----------------------------------------------------------------------------
(* The DataFrames handed to transform() *)

BASE_CELLS ==
    [c \in MEASURE_COLS |->
        CASE c = "temperature_2m_max" -> Num(7)
          [] c = "temperature_2m_min" -> Num(3)
          [] c = "precipitation_sum" -> Num(2)
          [] c = "rain_sum" -> Num(2)
          [] c = "snowfall_sum" -> Num(0)
          [] c = "weather_code" -> Num(53)
          [] c = "wind_speed_10m_max" -> Num(20)]

\* a row as the extractor returns it, with the columns an input may supply
Row(city, time, cells) ==
    [c \in {"city", "time", "source_file"} \cup MEASURE_COLS \cup COMPUTED_COLS |->
        CASE c = "city" -> city
          [] c = "time" -> time
          [] c = "source_file" -> city
          [] c = "temp_range" -> Float(99)
          [] c = "month" -> Int64(13)
          [] c = "day_of_week" -> "Noday"
          [] OTHER -> cells[c]]

\* the measurements of a row: the base values with one cell changed
VARIANTS ==
    {<<"temperature_2m_max", Num(61)>>, <<"temperature_2m_max", Num(60)>>,
     <<"temperature_2m_max", NA>>,
     <<"temperature_2m_min", Num(-61)>>, <<"temperature_2m_min", Num(-60)>>,
     <<"temperature_2m_min", Text>>,
     <<"precipitation_sum", Num(-1)>>, <<"precipitation_sum", NA>>,
     <<"rain_sum", Num(-1)>>, <<"snowfall_sum", NA>>,
     <<"weather_code", Half(53)>>, <<"weather_code", NA>>,
     <<"wind_speed_10m_max", NA>>}

TIMES == {"2024-01-01", "2024-1-1", "2024-02-29", "2023-02-29", "01/01/2024"}

RAW_ROWS ==
    {Row("berlin", "2024-01-01", [BASE_CELLS EXCEPT ![v[1]] = v[2]]) : v \in VARIANTS}
    \cup {Row("berlin", t, BASE_CELLS) : t \in TIMES}
    \cup {Row("cologne", "2024-01-01", BASE_CELLS),
          Row("cologne", "2024-01-01", [BASE_CELLS EXCEPT !["temperature_2m_max"] = Num(61)])}

KEY_COLS == {"city", "time"}
INPUT_COLS ==
    {KEY_COLS \cup {"source_file"} \cup MEASURE_COLS,
     KEY_COLS \cup {"source_file"} \cup MEASURE_COLS \cup COMPUTED_COLS,
     KEY_COLS \cup {"source_file", "precipitation_sum"},
     KEY_COLS \cup TEMP_COLS \cup {"rain_sum"}}

SeqsUpTo(S, n) == UNION {[1..k -> S] : k \in 0..n}

InputFrame(cols, rows) ==
    Frame(cols, [i \in 1..Len(rows) |-> [c \in cols |-> rows[i][c]]])

RAW_FRAMES == {InputFrame(cols, rows) : cols \in INPUT_COLS, rows \in SeqsUpTo(RAW_ROWS, MaxLen)}

----------------------------------------------------------------------------
(* transform(df, missing_strategy), stage by stage *)

\* the stage returned or raised r: transform() goes on to `next` or ends
Returned(r, next) ==
    /\ IF r.exc # ""
       THEN /\ tpc' = "raised"
            /\ terr' = r.exc
            /\ hist' = hist
       ELSE /\ tpc' = next
            /\ terr' = terr
            /\ hist' = Append(hist, r.df)
    /\ UNCHANGED <<strategy, pvars>>

Local == hist[Len(hist)]

DropSourceFile ==
    /\ tpc = "drop_source_file"
    /\ Returned(stage(1, Local, strategy), "remove_duplicates")

RemoveDuplicates ==
    /\ tpc = "remove_duplicates"
    /\ Returned(stage(2, Local, strategy), "cast_types")

CastTypes ==
    /\ tpc = "cast_types"
    /\ Returned(stage(3, Local, strategy), "handle_missing_values")

HandleMissingValues ==
    /\ tpc = "handle_missing_values"
    /\ Returned(stage(4, Local, strategy), "validate_temperature")

ValidateTemperature ==
    /\ tpc = "validate_temperature"
    /\ Returned(stage(5, Local, strategy), "validate_precipitation")

ValidatePrecipitation ==
    /\ tpc = "validate_precipitation"
    /\ Returned(stage(6, Local, strategy), "add_computed_columns")

AddComputedColumns ==
    /\ tpc = "add_computed_columns"
    /\ Returned(stage(7, Local, strategy), "reset_index")

ResetIndex ==
    /\ tpc = "reset_index"
    /\ Returned(stage(8, Local, strategy), "done")

----------------------------------------------------------------------------
(* src/src/load.py: the relation weather_data and the upsert *)

\* weather_data is a bag of rows over LOAD_COLS (the surrogate id and
\* created_at, which no statement of the loader writes, are left out)
EmptyTable == EmptyBag

None == [k |-> "null", v |-> 0]

\* ON CONFLICT (city, time): the columns of the arbiter constraint
conflict_target_time_only(r) == <<r["time"]>>

conflict_target(r) == <<r["city"], r["time"]>>

\* a plain INSERT into a relation with no UNIQUE(city, time)
upsert_insert_only(T, rec) == T (+) SetToBag({rec})

\* ON CONFLICT (city, time) DO NOTHING
upsert_do_nothing(T, rec) ==
    IF \E r \in BagToSet(T) : conflict_target(r) = conflict_target(rec)
    THEN T
    ELSE T (+) SetToBag({rec})

\* INSERT ... ON CONFLICT (city, time) DO UPDATE SET <every other column> =
\* EXCLUDED.<column>, for one proposed row
upsert(T, rec) ==
    LET hit == {r \in BagToSet(T) : conflict_target(r) = conflict_target(rec)}
    IN  IF hit = {} THEN T (+) SetToBag({rec})
        ELSE LET r == CHOOSE x \in hit : TRUE
                 updated == [c \in LOAD_COLS |-> IF c \in KEY_COLS THEN r[c] ELSE rec[c]]
             IN  (T (-) SetToBag({r})) (+) SetToBag({updated})

Done(T) == [exc |-> "", table |-> T]
Failed(e, T) == [exc |-> e, table |-> T]

RECURSIVE insert_values(_, _, _)
\* one INSERT statement with the rows recs: a row the statement has already
\* inserted or updated cannot be affected a second time
insert_values(T, recs, touched) ==
    IF recs = <<>> THEN Done(T)
    ELSE LET k == conflict_target(Head(recs))
         IN  IF k \in touched THEN Failed("CardinalityViolation", T)
             ELSE insert_values(upsert(T, Head(recs)), Tail(recs), touched \cup {k})

\* the tuple load() builds of one row
to_record(row) ==
    [c \in LOAD_COLS |->
        IF c \in NUMBER_COLS /\ isna(row[c]) THEN None ELSE row[c]]

\* execute_values: the number of pages of the batch, and page number n of it
page_count(recs) == (Len(recs) + PAGE_SIZE - 1) \div PAGE_SIZE

page_of(recs, n) ==
    SubSeq(recs, (n - 1) * PAGE_SIZE + 1,
           IF n * PAGE_SIZE < Len(recs) THEN n * PAGE_SIZE ELSE Len(recs))

\* what is committed once the connection is gone without a commit
not_rolled_back(committed, working) == working

rolled_back(committed, working) == committed

row_count(T) == BagCardinality(T)

----------------------------------------------------------------------------
(* The files of RAW_DATA_DIR, as extract_all() returns them *)

EXTRACT_ROWS ==
    {Row("berlin", "2024-01-01", BASE_CELLS),
     Row("berlin", "2024-01-01", [BASE_CELLS EXCEPT !["temperature_2m_max"] = Num(60)]),
     Row("berlin", "2024-01-01", [BASE_CELLS EXCEPT !["temperature_2m_max"] = Num(61)]),
     Row("berlin", "2024-01-01", [BASE_CELLS EXCEPT !["precipitation_sum"] = Num(-1)]),
     Row("berlin", "2024-1-1", [BASE_CELLS EXCEPT !["temperature_2m_min"] = Num(-60)]),
     Row("berlin", "2023-02-29", BASE_CELLS),
     Row("cologne", "2024-01-01", BASE_CELLS)}

EXTRACT_COLS == KEY_COLS \cup {"source_file"} \cup MEASURE_COLS

EXTRACT_FRAMES ==
    {InputFrame(EXTRACT_COLS, rows) : rows \in SeqsUpTo(EXTRACT_ROWS, MaxRows)}
    \cup {InputFrame(EXTRACT_COLS \ {"wind_speed_10m_max"}, rows) :
             rows \in SeqsUpTo(EXTRACT_ROWS, 1)}

NoFrame == Frame({}, <<>>)
NoErr == [exc |-> "", in |-> ""]
Exc(e, where) == [exc |-> e, in |-> where]

----------------------------------------------------------------------------
(* src/src/main.py: the commands, and load() and get_row_count() step by step *)

\* an exception leaves the command: nothing in main.py catches it
Raised(e, where) ==
    /\ pc' = "raised"
    /\ err' = Exc(e, where)

\* between two commands a file of RAW_DATA_DIR gets one more row
AppendRow ==
    /\ pc = "idle"
    /\ \E row \in EXTRACT_ROWS, cols \in {EXTRACT_COLS, EXTRACT_COLS \ {"wind_speed_10m_max"}} :
          /\ files.rows # <<>> => cols = files.cols
          /\ files' = InputFrame(cols, Append(files.rows, [c \in cols |-> row[c]]))
    /\ files' \in EXTRACT_FRAMES
    /\ rerun' = "no"
    /\ UNCHANGED <<tvars, pc, df, records, page, store, table, tx, conns, pre, loaded, err,
                   total>>

\* between two commands the files of RAW_DATA_DIR are removed
RemoveFiles ==
    /\ pc = "idle"
    /\ files # NoFrame
    /\ files' = NoFrame
    /\ rerun' = "no"
    /\ UNCHANGED <<tvars, pc, df, records, page, store, table, tx, conns, pre, loaded, err,
                   total>>

\* run: df = extract_all(RAW_DATA_DIR); if df.empty: return
Extract ==
    /\ pc = "idle"
    /\ df' = files
    /\ pc' = (IF files.rows = <<>> \/ files.cols = {} THEN "aborted" ELSE "transform")
    /\ rerun' = (IF rerun = "synced" THEN "yes" ELSE "no")
    /\ UNCHANGED <<tvars, files, records, page, store, table, tx, conns, pre, loaded, err,
                   total>>

\* run with a transform() whose exception is swallowed: load is entered with
\* the DataFrame as extracted
Transform_ignoring_failure ==
    /\ pc = "transform"
    /\ LET r == transform(df, "drop")
       IN  /\ pc' = "create_table"
           /\ df' = (IF r.exc # "" THEN df ELSE r.df)
           /\ err' = err
    /\ UNCHANGED <<tvars, files, records, page, store, table, tx, conns, pre, loaded, rerun,
                   total>>

\* run: df = transform(df)
Transform ==
    /\ pc = "transform"
    /\ LET r == transform(df, "drop")
       IN  IF r.exc # ""
           THEN Raised(r.exc, "transform") /\ df' = df
           ELSE pc' = "create_table" /\ df' = r.df /\ err' = err
    /\ UNCHANGED <<tvars, files, records, page, store, table, tx, conns, pre, loaded, rerun,
                   total>>

\* load: create_table(): conn = get_connection()
CreateTableConnect(ok) ==
    /\ pc = "create_table"
    /\ pre' = store
    /\ IF ok
       THEN pc' = "create_table_execute" /\ conns' = conns + 1 /\ err' = err
       ELSE Raised("OperationalError", "create_table") /\ conns' = conns
    /\ UNCHANGED <<tvars, files, df, records, page, store, table, tx, loaded, rerun, total>>

\* create_table(): CREATE TABLE IF NOT EXISTS, commit; finally conn.close()
CreateTableExecute(ok) ==
    /\ pc = "create_table_execute"
    /\ conns' = conns - 1
    /\ IF ok
       THEN pc' = "records" /\ table' = TRUE /\ err' = err
       ELSE Raised("OperationalError", "create_table") /\ table' = table
    /\ UNCHANGED <<tvars, files, df, records, page, store, tx, pre, loaded, rerun, total>>

\* load: the tuples of the rows; row[col] of a column df lacks is a KeyError
BuildRecords ==
    /\ pc = "records"
    /\ IF df.rows # <<>> /\ ~(LOAD_COLS \subseteq df.cols)
       THEN Raised("KeyError", "load") /\ records' = records
       ELSE /\ pc' = "connect"
            /\ records' = [i \in 1..Len(df.rows) |-> to_record(df.rows[i])]
            /\ err' = err
    /\ UNCHANGED <<tvars, files, df, page, store, table, tx, conns, pre, loaded, rerun, total>>

\* load: conn = get_connection(); the transaction begins with the first statement
LoadConnect(ok) ==
    /\ pc = "connect"
    /\ IF ok
       THEN /\ pc' = "execute"
            /\ conns' = conns + 1
            /\ tx' = store
            /\ page' = 0
            /\ err' = err
       ELSE Raised("OperationalError", "load") /\ UNCHANGED <<conns, tx, page>>
    /\ UNCHANGED <<tvars, files, df, records, store, table, pre, loaded, rerun, total>>

\* load with conn.close() at the end of the try body instead of in finally
LoadFails_no_close(e, working) ==
    /\ \E rb \in BOOLEAN : Raised(IF rb THEN e ELSE "InterfaceError", "load")
    /\ store' = rolled_back(store, working)
    /\ tx' = EmptyTable
    /\ conns' = conns

\* the except and finally clauses of load: conn.rollback(), raise, conn.close().
\* A rollback that raises (rb false) replaces the exception by its own and
\* leaves through the same finally; the server drops the transaction of a
\* closed connection
LoadFails(e, working) ==
    /\ \E rb \in BOOLEAN : Raised(IF rb THEN e ELSE "InterfaceError", "load")
    /\ store' = rolled_back(store, working)
    /\ tx' = EmptyTable
    /\ conns' = conns - 1

\* execute_values: the next page of at most PAGE_SIZE records, one statement
ExecutePage(ok) ==
    /\ pc = "execute"
    /\ page < page_count(records)
    /\ LET r == insert_values(tx, page_of(records, page + 1), {})
       IN  IF ~ok THEN LoadFails("OperationalError", r.table) /\ page' = page
           ELSE IF r.exc # "" THEN LoadFails(r.exc, r.table) /\ page' = page
           ELSE /\ tx' = r.table
                /\ page' = page + 1
                /\ UNCHANGED <<pc, err, store, conns>>
    /\ UNCHANGED <<tvars, files, df, records, table, pre, loaded, rerun, total>>

\* load: conn.commit(); return len(df); finally conn.close()
Commit(ok) ==
    /\ pc = "execute"
    /\ page = page_count(records)
    /\ IF ok
       THEN /\ store' = tx
            /\ tx' = EmptyTable
            /\ conns' = conns - 1
            /\ pc' = "loaded"
            /\ err' = err
            /\ loaded' = loaded \cup {<<records[i]["city"], records[i]["time"]>> :
                                         i \in 1..Len(records)}
       ELSE LoadFails("OperationalError", tx) /\ loaded' = loaded
    /\ UNCHANGED <<tvars, files, df, records, page, table, pre, rerun, total>>

\* get_row_count(): conn = get_connection()
GetRowCountConnect(ok) ==
    /\ pc = "loaded"
    /\ IF ok
       THEN pc' = "count" /\ conns' = conns + 1 /\ err' = err
       ELSE Raised("OperationalError", "get_row_count") /\ conns' = conns
    /\ UNCHANGED <<tvars, files, df, records, page, store, table, tx, pre, loaded, rerun,
                   total>>

\* get_row_count(): SELECT COUNT(*) FROM weather_data; finally conn.close()
GetRowCountExecute(ok) ==
    /\ pc = "count"
    /\ conns' = conns - 1
    /\ IF ok /\ table
       THEN pc' = "done" /\ total' = row_count(store) /\ err' = err
       ELSE Raised("OperationalError", "get_row_count") /\ total' = total
    /\ UNCHANGED <<tvars, files, df, records, page, store, table, tx, pre, loaded, rerun>>

\* status: get_row_count(): conn = get_connection(); status catches the
\* exception and echoes it
StatusConnect(ok) ==
    /\ pc = "idle"
    /\ IF ok
       THEN pc' = "status_count" /\ conns' = conns + 1 /\ err' = err
       ELSE pc' = "status" /\ conns' = conns /\ err' = Exc("OperationalError", "status")
    /\ UNCHANGED <<tvars, files, df, records, page, store, table, tx, pre, loaded, rerun,
                   total>>

\* status: get_row_count(): SELECT COUNT(*); finally conn.close(); the count
\* or the caught exception is echoed
StatusExecute(ok) ==
    /\ pc = "status_count"
    /\ pc' = "status"
    /\ conns' = conns - 1
    /\ IF ok /\ table
       THEN total' = row_count(store) /\ err' = err
       ELSE total' = total /\ err' = Exc("OperationalError", "status")
    /\ UNCHANGED <<tvars, files, df, records, page, store, table, tx, pre, loaded, rerun>>

\* extract: df = extract_all(RAW_DATA_DIR); the row count is echoed
ExtractOnly ==
    /\ pc = "idle"
    /\ pc' = "extracted"
    /\ df' = files
    /\ UNCHANGED <<tvars, files, records, page, store, table, tx, conns, pre, loaded, rerun,
                   err, total>>

\* the command returns or dies: its locals are gone
Exit ==
    /\ pc \in {"done", "raised", "aborted", "status", "extracted"}
    /\ pc' = "idle"
    /\ df' = NoFrame
    /\ records' = <<>>
    /\ page' = 0
    /\ pre' = EmptyTable
    /\ err' = NoErr
    /\ total' = 0
    /\ rerun' = (IF pc = "done" \/ (pc = "raised" /\ err.in = "get_row_count") \/ rerun = "yes"
                 THEN "synced"
                 ELSE IF pc \in {"status", "extracted"} THEN rerun ELSE "no")
    /\ UNCHANGED <<tvars, files, store, table, tx, conns, loaded>>

InitPipeline ==
    /\ pc = "idle"
    /\ df = NoFrame
    /\ records = <<>>
    /\ page = 0
    /\ store = EmptyTable
    /\ table = FALSE
    /\ tx = EmptyTable
    /\ conns = 0
    /\ pre = EmptyTable
    /\ loaded = {}
    /\ rerun = "no"
    /\ err = NoErr
    /\ total = 0

Init ==
    /\ hist = <<>>
    /\ strategy = "drop"
    /\ tpc = "idle"
    /\ terr = ""
    /\ files = NoFrame
    /\ InitPipeline

Next ==
    \/ AppendRow
    \/ RemoveFiles
    \/ Extract
    \/ Transform
    \/ \E ok \in BOOLEAN : CreateTableConnect(ok)
    \/ \E ok \in BOOLEAN : CreateTableExecute(ok)
    \/ BuildRecords
    \/ \E ok \in BOOLEAN : LoadConnect(ok)
    \/ \E ok \in BOOLEAN : ExecutePage(ok)
    \/ \E ok \in BOOLEAN : Commit(ok)
    \/ \E ok \in BOOLEAN : GetRowCountConnect(ok)
    \/ \E ok \in BOOLEAN : GetRowCountExecute(ok)
    \/ \E ok \in BOOLEAN : StatusConnect(ok)
    \/ \E ok \in BOOLEAN : StatusExecute(ok)
    \/ ExtractOnly
    \/ Exit

Spec == Init /\ [][Next]_vars

----------------------------------------------------------------------------
(* transform() on its own, on every DataFrame of RAW_FRAMES *)

InitTransform ==
    /\ hist \in {<<f>> : f \in RAW_FRAMES}
    /\ strategy \in STRATEGIES \cup {"bogus"}
    /\ tpc = STAGES[1]
    /\ terr = ""
    /\ files = NoFrame
    /\ InitPipeline

NextTransform ==
    \/ DropSourceFile
    \/ RemoveDuplicates
    \/ CastTypes
    \/ HandleMissingValues
    \/ ValidateTemperature
    \/ ValidatePrecipitation
    \/ AddComputedColumns
    \/ ResetIndex

SpecTransform == InitTransform /\ [][NextTransform]_vars

----------------------------------------------------------------------------
(* Properties of the loader, checked under Spec *)

Rows(T) == BagToSet(T)
KeyOf(r) == <<r["city"], r["time"]>>
LoadReturned == pc \in {"loaded", "count", "done"} \/ (pc = "raised" /\ err.in = "get_row_count")

\* record i of the batch is the last one of its (city, date) key
LastOfKey(i) == \A j \in (i + 1)..Len(records) : KeyOf(records[j]) # KeyOf(records[i])

\* C1: idempotence of load. When load(D) has returned in a run that loads the
\* dataset the last committed load() loaded (so that pre, the store this
\* load() started from, is the store after one load(D)), the store is what it
\* was after the first load(D): the same rows with the same values, hence the
\* same row count.
C1_LoadIdempotent ==
    (rerun = "yes" /\ LoadReturned) =>
        /\ store = pre
        /\ row_count(store) = row_count(pre)

C1_Witness ==
    /\ rerun = "yes"
    /\ pc = "loaded"
    /\ Len(records) >= 2
    /\ \A i, j \in 1..Len(records) : i # j => KeyOf(records[i]) # KeyOf(records[j])
    /\ row_count(store) = 2

\* C2: last write wins. When load(D2) has returned, every record of D2 (the
\* last one of its key, if D2 repeats a key) is stored exactly as D2 gives
\* it, city and date included, and no other stored row has its key: nothing
\* of an earlier load's values for that key remains.
C2_LastWriteWins ==
    LoadReturned =>
        \A i \in 1..Len(records) :
            LastOfKey(i) =>
                /\ CopiesIn(records[i], store) = 1
                /\ \A r \in Rows(store) : KeyOf(r) = KeyOf(records[i]) => r = records[i]

C2_Witness ==
    /\ pc = "loaded"
    /\ \E r \in Rows(pre) : \E i \in 1..Len(records) :
          /\ KeyOf(r) = KeyOf(records[i])
          /\ r["temperature_2m_max"] # records[i]["temperature_2m_max"]
          /\ records[i] \in Rows(store)

\* C3: one stored row per key ever loaded. No two stored rows share their
\* (city, date), no row is stored twice, the keys stored are exactly the
\* keys of the committed loads, and get_row_count() returns their number.
C3_OneRowPerKey ==
    /\ \A r1, r2 \in Rows(store) : KeyOf(r1) = KeyOf(r2) => r1 = r2
    /\ \A r \in Rows(store) : CopiesIn(r, store) = 1
    /\ {KeyOf(r) : r \in Rows(store)} = loaded
    /\ row_count(store) = Cardinality(loaded)
    /\ pc = "done" => total = Cardinality(loaded)
    /\ (pc = "status" /\ err = NoErr) => total = Cardinality(loaded)

C3_Witness ==
    /\ pc = "done"
    /\ total = 2
    /\ \E r1, r2 \in Rows(store) : r1["city"] # r2["city"] /\ r1["time"] = r2["time"]

C10_AtomicBatch ==
    /\ pc \in {"create_table_execute", "records", "connect", "execute"} => store = pre
    /\ (pc = "raised" /\ err.in \in {"create_table", "load"}) =>
          /\ store = pre
          /\ err.exc # ""
          /\ tx = EmptyTable
    /\ pc = "loaded" =>
          \A i \in 1..Len(records) :
              \E r \in Rows(store) :
                  /\ KeyOf(r) = KeyOf(records[i])
                  /\ LastOfKey(i) => r = records[i]

C10_Witness ==
    /\ pc = "raised"
    /\ err = Exc("OperationalError", "load")
    /\ page = 1
    /\ Len(records) > PAGE_SIZE
    /\ \E i \in 1..PAGE_SIZE : KeyOf(records[i]) \notin {KeyOf(r) : r \in Rows(store)}

\* load() has been called in the running command (it runs, has returned, or
\* has raised)
InLoad ==
    \/ pc \in {"create_table", "create_table_execute", "records", "connect", "execute",
               "loaded", "count", "done"}
    \/ pc = "raised" /\ err.in \in {"create_table", "load", "get_row_count"}

\* the running command ended before load(): nothing was extracted, or
\* transform() raised
EndedBeforeLoad == pc = "aborted" \/ (pc = "raised" /\ err.in = "transform")

C11_Order ==
    LET t == transform(files, "drop")
    IN  /\ pc = "transform" => (df = files /\ df.rows # <<>>)
        /\ pc = "create_table" => (files.rows # <<>> /\ t.exc = "" /\ df = t.df)
        /\ EndedBeforeLoad =>
              /\ records = <<>> /\ page = 0 /\ pre = EmptyTable
              /\ tx = EmptyTable /\ conns = 0
        /\ pc = "aborted" => df.rows = <<>>
        /\ (pc = "raised" /\ err.in = "transform") => t.exc = err.exc

C11_Step ==
    /\ (pc' = "transform" /\ pc # "transform") => (pc = "idle" /\ df' = files)
    /\ (InLoad' /\ ~InLoad) => (pc = "transform" /\ pc' = "create_table")
    /\ (InLoad /\ InLoad') => (df' = df /\ files' = files)
    /\ (store' # store \/ table' # table \/ tx' # tx) => (InLoad /\ InLoad')
    /\ (pc \in {"idle", "transform"} \/ EndedBeforeLoad) =>
          (store' = store /\ table' = table /\ tx' = tx)

\* C11: stage sequencing of run. transform() starts only from the extracted
\* DataFrame, load() (create_table and every write) is entered only when
\* transform() has returned, on what it returned, and works on that
\* DataFrame until it ends; the table and its rows
\* change only inside load(); a run that extracted nothing or whose
\* transform() raised never enters load(), and none of its steps changes the
\* table or its rows.
C11_StageSequencing == []C11_Order /\ [][C11_Step]_vars

C11_Witness ==
    /\ pc = "raised"
    /\ err = Exc("ValueError", "transform")
    /\ \E i \in 1..Len(files.rows) : to_datetime(files.rows[i]["time"]) = NaT
    /\ row_count(store) >= 1
    /\ conns = 0

\* the positions at which create_table, load or get_row_count holds the
\* connection it opened
HoldsConnection == pc \in {"create_table_execute", "execute", "count", "status_count"}

\* C12: connection release. The open connections are the one connection of
\* the operation that is between its get_connection() and its finally:
\* never more than one, and none once create_table, load or get_row_count
\* has returned or raised, whether execute, commit or rollback failed.
C12_ConnectionsReleased ==
    /\ conns = (IF HoldsConnection THEN 1 ELSE 0)
    /\ conns # 0 => pc \notin {"idle", "records", "connect", "loaded", "done", "raised",
                               "status", "aborted", "extracted"}

C12_Witness ==
    /\ pc = "raised"
    /\ err = Exc("InterfaceError", "load")
    /\ page = 1
    /\ row_count(store) >= 1
    /\ conns = 0

----------------------------------------------------------------------------
(* Properties of transform(), checked under SpecTransform *)

\* the DataFrame after stage n of transform() (n = 0: the argument)
After(n) == hist[n + 1]
Ran(n) == Len(hist) >= n + 1

\* the rows of f without the columns dropped
Without(f, dropped) == drop_columns(f, dropped).rows

\* Zeller's congruence: 0 is Saturday
Zeller(t) ==
    LET m == IF t.m < 3 THEN t.m + 12 ELSE t.m
        y == IF t.m < 3 THEN t.y - 1 ELSE t.y
    IN  (t.d + (13 * (m + 1)) \div 5 + (y % 100) + (y % 100) \div 4 + (y \div 100) \div 4
         + 5 * (y \div 100)) % 7

WeekdayName(t) ==
    <<"Saturday", "Sunday", "Monday", "Tuesday", "Wednesday", "Thursday", "Friday">>[Zeller(t) + 1]

\* the number written between the two "-" of a date string
MonthWritten(s) ==
    LET second == CHOOSE i \in 7..Len(s) : Ch(s, i) = "-"
    IN  Digits(s, 6, second - 1)

\* C5: the derived fields of every row transform() returns are those of the
\* row itself: temp_range is temperature_2m_max - temperature_2m_min, month
\* is the month of its date (1..12, the month written in the time string of
\* an input row of that city and date) and day_of_week the name of the
\* weekday of its date, whatever temp_range, month and day_of_week columns
\* the input supplied.
C5_DerivedFields ==
    tpc = "done" =>
        /\ COMPUTED_COLS \subseteq After(8).cols
        /\ \A i \in 1..Len(After(8).rows) :
              LET row == After(8).rows[i]
                  tmax == row["temperature_2m_max"]
                  tmin == row["temperature_2m_min"]
              IN  /\ row["temp_range"] =
                        (IF tmax.k = "num" /\ tmin.k = "num"
                         THEN [k |-> "num", v |-> tmax.v - tmin.v]
                         ELSE NaN)
                  /\ row["month"] = [k |-> "int", v |-> row["time"].m]
                  /\ row["time"].m \in 1..12
                  /\ \E j \in 1..Len(After(0).rows) :
                        /\ After(0).rows[j]["city"] = row["city"]
                        /\ MonthWritten(After(0).rows[j]["time"]) = row["month"].v
                  /\ row["day_of_week"] = WeekdayName(row["time"])

C5_Witness ==
    /\ tpc = "done"
    /\ COMPUTED_COLS \subseteq After(0).cols
    /\ Len(After(8).rows) = 2
    /\ After(8).rows[1]["temp_range"] # After(0).rows[1]["temp_range"]
    /\ After(8).rows[1]["day_of_week"] = "Monday"
    /\ After(8).rows[2]["day_of_week"] = "Thursday"
    /\ After(8).rows[2]["month"] = Int64(2)

\* row i is the first row of rows with its (city, time)
FirstOfKey(rows, i) ==
    \A j \in 1..(i - 1) :
        rows[j]["city"] # rows[i]["city"] \/ rows[j]["time"] # rows[i]["time"]

RECURSIVE FirstOccurrences(_, _)
\* the rows among the first n that are the first of their key, in row order
FirstOccurrences(rows, n) ==
    IF n = 0 THEN <<>>
    ELSE IF FirstOfKey(rows, n) THEN Append(FirstOccurrences(rows, n - 1), rows[n])
    ELSE FirstOccurrences(rows, n - 1)

InRange(c) == c.k = "num" /\ c.v >= TEMP_MIN * Scale /\ c.v <= TEMP_MAX * Scale
NoNegative(f, row) == \A c \in PRECIP_COLS \cap f.cols : ~(row[c].k = "num" /\ row[c].v < 0)

\* the rows that reached validate_temperature for which ok holds, and the
\* rows transform() returns, both without the derived columns
Reached(ok(_)) == SelectSeq(Without(After(4), COMPUTED_COLS), ok)
Returned8 == Without(After(8), COMPUTED_COLS)

\* C7 as claimed: the rows transform() returns are exactly the rows reaching
\* the validation stages with both temperatures in [-60, 60] and no negative
\* precipitation value, unmodified.
C7_Claimed ==
    tpc = "done" =>
        LET ok(row) == /\ InRange(row["temperature_2m_max"])
                       /\ InRange(row["temperature_2m_min"])
                       /\ NoNegative(After(4), row)
        IN  Returned8 = Reached(ok)

\* C7 as amended: the rows transform() returns are exactly the rows reaching
\* the validation stages in which neither temperature is a value outside
\* [-60, 60] (a temperature that is missing is not rejected) and no present
\* precipitation value is negative, unmodified.
C7_ValidationRejects ==
    tpc = "done" =>
        LET notOut(c) == c.k = "num" => InRange(c)
            ok(row) == /\ notOut(row["temperature_2m_max"])
                       /\ notOut(row["temperature_2m_min"])
                       /\ NoNegative(After(4), row)
        IN  Returned8 = Reached(ok)

C7_Witness ==
    /\ tpc = "done"
    /\ Len(After(4).rows) = 2
    /\ Len(After(8).rows) = 1
    /\ After(4).rows[2]["temperature_2m_max"] = Float(61)
    /\ After(8).rows[1]["temperature_2m_min"] = Float(TEMP_MIN)

\* C8 as claimed: with a strategy other than drop, fill_zero and fill_mean
\* the missing-value stage returns no DataFrame: it raises ValueError.
C8_Claimed ==
    strategy \notin STRATEGIES =>
        /\ ~Ran(4)
        /\ (tpc = "raised" /\ Ran(3)) => terr = "ValueError"

\* C9 as claimed: transform() raises only for a malformed date or an
\* unknown strategy.
C9_Claimed ==
    tpc = "raised" =>
        \/ strategy \notin STRATEGIES
        \/ \E i \in 1..Len(After(0).rows) : to_datetime(After(0).rows[i]["time"]) = NaT

\* the (city, date) of a row of the argument, and of a row transform() returns
DateKeyIn(row) == <<row["city"], to_datetime(row["time"])>>
DateKeyOut(row) == <<row["city"], row["time"]>>

\* the first row of the argument with the (city, date) key
FirstWithDate(key) ==
    CHOOSE i \in 1..Len(After(0).rows) :
        /\ DateKeyIn(After(0).rows[i]) = key
        /\ \A j \in 1..(i - 1) : DateKeyIn(After(0).rows[j]) # key

\* the returned row o carries the measurements of the row r of the argument
\* (a missing cell of r may have been filled)
CarriesRow(o, r) ==
    \A c \in FLOAT_COLS \cap After(0).cols : ~isna(to_numeric(r[c])) => o[c] = to_numeric(r[c])

\* C13 as claimed: every row transform() returns is the first row of the
\* argument with its (city, date), so that a key whose first row was dropped
\* or rejected has no row in the output, and no two returned rows have the
\* same (city, date).
C13_Claimed ==
    tpc = "done" =>
        /\ \A k \in 1..Len(After(8).rows) :
              /\ \E i \in 1..Len(After(0).rows) :
                    DateKeyIn(After(0).rows[i]) = DateKeyOut(After(8).rows[k])
              /\ CarriesRow(After(8).rows[k],
                            After(0).rows[FirstWithDate(DateKeyOut(After(8).rows[k]))])
        /\ \A k, l \in 1..Len(After(8).rows) :
              DateKeyOut(After(8).rows[k]) = DateKeyOut(After(8).rows[l]) => k = l

====
